---- MODULE Spec2Model ----
(***************************************************************************)
(* Lead ingestion core of the marketing dashboard                          *)
(* (src/Marketing Dashboard/dashboard.py): the token provider and the      *)
(* paginated lead fetcher behind their two st.cache_data caches, and the   *)
(* script run of create_dashboard that loads, filters and renders them.    *)
(*                                                                         *)
(* One script run of create_dashboard is a sequence of steps tracked by    *)
(* pc; the wall clock may advance between any two steps, in particular     *)
(* between two page requests of one fetch.                                 *)
(***************************************************************************)
EXTENDS Integers, Sequences, FiniteSets, TLC

\* ------------------------------------------------------------- bounds
\* Horizon of the wall clock, in seconds.
MaxTime == 3600
\* Granularity of the wall clock, in seconds.
TickStep == 900
\* Largest number of pages the remote collection spans.
MaxPages == 2
\* Largest number of forced refreshes in one session.
MaxForce == 1
\* Calendar days the date-range selection and the timestamps range over.
MaxDay == 2

\* Largest number of leads handed to the date filter and the normalizer.
MaxLeads == 2

\* Largest number of rows of the tables the tabs' filters are tried on.
MaxRows == 3
\* Largest number of records in the manual-lead store.
MaxManual == 3
\* The records the manual-lead store may hold in a session of button presses.
MaxStore == 6

\* ---------------------------------------------------- program constants
\* @st.cache_data(ttl=1800) on get_access_token_cached
TokenTTL == 1800
\* @st.cache_data(ttl=3600) on fetch_all_leads_cached
SnapTTL == 3600
\* the only status fetch_all_leads accepts (response.status_code != 200)
StatusOK == 200

\* Python's None (the token of a failed exchange).
None == <<>>
\* The access token issued by a successful exchange at time t.
Token(t) == <<t>>

\* ------------------------------------------------------------ the caches
\* One st.cache_data entry: the cached return value and the time it was
\* stored.  fromOk is history: whether the call that produced the value
\* ended without any failure.
NoEntry == [present |-> FALSE, value |-> <<>>, stored |-> 0, fromOk |-> FALSE]
Entry(v, t, ok) == [present |-> TRUE, value |-> v, stored |-> t, fromOk |-> ok]

\* st.cache_data(ttl): an entry is served while its age is below the ttl.
CacheHit(e, ttl, t) == e.present /\ t - e.stored < ttl

\* The cache key of fetch_all_leads_cached.  Key 0 is the key of the default
\* argument (dummy_param=None); the n-th forced refresh passes datetime.now(),
\* an argument no earlier call has passed, modelled as the fresh key n.
DefaultKey == 0
\* (faulty variant: the forced call passes no distinguishing argument)
ForceKeyReused(n) == DefaultKey
ForceKey(n) == n

\* ------------------------------------------------------- the remote data
\* A Created_Time value as the CRM delivers it.  kind tells what the JSON
\* value is: "iso", a string "YYYY-MM-DDTHH:MM:SS" followed by nothing
\* (tz "none"), by "Z" (tz "Z") or by an offset "+HH:MM" (tz "offset");
\* "compact", the same with the offset written "+HHMM"; "bad", any other
\* non-empty string; "empty", the string ""; "absent", no such key; "null";
\* "number", a non-zero number.  day and tod (second of the day) are the
\* date and time written in the string, off the offset written, in seconds.
Time(kind, d, tod, tz, off) ==
    [kind |-> kind, day |-> d, tod |-> tod, tz |-> tz, off |-> off]
NoTime(kind) == Time(kind, 0, 0, "none", 0)
\* 09:00:00Z on day d, an unparseable text, the empty string.
Stamp(d) == Time("iso", d, 9 * 3600, "Z", 0)
BadStamp == NoTime("bad")
EmptyStamp == NoTime("empty")

\* The i-th record of page k of the remote collection.
Lead(k, i) ==
    [id |-> 10 * k + i,
     Created_Time |-> IF i = 1 THEN Stamp(IF k <= MaxDay THEN k ELSE MaxDay)
                      ELSE IF k = 1 THEN BadStamp ELSE EmptyStamp]

\* What the 'data' array of page k can hold: nothing, or the page's records
\* (two on odd pages, one on even pages).
PageData(k) == {<<>>, IF k % 2 = 1 THEN <<Lead(k, 1), Lead(k, 2)>>
                      ELSE <<Lead(k, 1)>>}

\* A response of the identity endpoint.
TokenResponses ==
    [net_error : {TRUE}, status : {0}, body : {"none"}]
    \cup [net_error : {FALSE}, status : {400, 500}, body : {"error"}]
    \cup [net_error : {FALSE}, status : {200},
          body : {"token", "no_field", "not_object", "not_json"}]

\* A response of the lead collection endpoint to a request for page k made
\* with token tok.  A request without a valid token is not answered with
\* data; the collection spans at most MaxPages pages.
LeadResponses(k, tok) ==
    LET fail == [net_error : {TRUE}, status : {0}, json : {FALSE},
                 data : {<<>>}, info : {"absent"}]
        http(S) == [net_error : {FALSE}, status : S, json : {FALSE},
                    data : {<<>>}, info : {"absent"}]
        infos == IF k < MaxPages THEN {"more", "no_more", "absent", "null"}
                 ELSE {"no_more", "absent", "null"}
    IN  IF tok = None THEN fail \cup http({401})
        ELSE fail \cup http({204, 500, 200})
             \cup [net_error : {FALSE}, status : {200}, json : {TRUE},
                   data : PageData(k), info : infos]

\* ------------------------------------------------------- pure functions
RECURSIVE Flatten(_)
Flatten(ss) == IF ss = <<>> THEN <<>> ELSE Head(ss) \o Flatten(Tail(ss))

\* get_access_token: one POST to the identity endpoint.  jsonErrCaught says
\* whether the installed requests raises its JSON decoding error as a
\* RequestException (caught) or as a plain ValueError (not caught).
get_access_token(r, jsonErrCaught, t) ==
    LET caught == [raised |-> FALSE, value |-> None,
                   msgs |-> {"Error getting access token"}]
        thrown == [raised |-> TRUE, value |-> None, msgs |-> {}]
    IN  IF r.net_error THEN caught
        ELSE IF r.status >= 400 THEN caught
        ELSE IF r.body = "not_json" THEN IF jsonErrCaught THEN caught ELSE thrown
        ELSE IF r.body = "not_object" THEN thrown
        ELSE IF r.body = "no_field"
             THEN [raised |-> FALSE, value |-> None, msgs |-> {}]
        ELSE [raised |-> FALSE, value |-> Token(t), msgs |-> {}]

\* What one iteration of the while loop of fetch_all_leads yields: whether the
\* loop is left, all_leads (the return value when it is left), the page
\* counter, how the loop was left and the messages reported.
Iter(done, leads, p, exit, m) ==
    [done |-> done, all_leads |-> leads, page |-> p, exit |-> exit, msgs |-> m]
IterFailed(p) == Iter(TRUE, <<>>, p, "exception", {"Error fetching leads"})

\* One iteration of the while loop of fetch_all_leads on response r
\* (FetchIter below).
\* (faulty variants: all_leads = leads instead of extend; the partial result
\* dropped on a bad status)
FetchIterOverwriting(acc, p, r) ==
    IF r.net_error THEN IterFailed(p)
    ELSE IF r.status # StatusOK THEN Iter(TRUE, acc, p, "status", {"API Error"})
    ELSE IF ~r.json THEN IterFailed(p)
    ELSE IF r.data = <<>> THEN Iter(TRUE, acc, p, "empty", {})
    ELSE IF r.info = "null" THEN IterFailed(p)
    ELSE IF r.info # "more" THEN Iter(TRUE, r.data, p, "no_more", {})
    ELSE Iter(FALSE, r.data, p + 1, "none", {})
FetchIterDroppingPartial(acc, p, r) ==
    IF r.net_error THEN IterFailed(p)
    ELSE IF r.status # StatusOK THEN Iter(TRUE, <<>>, p, "status", {"API Error"})
    ELSE IF ~r.json THEN IterFailed(p)
    ELSE IF r.data = <<>> THEN Iter(TRUE, acc, p, "empty", {})
    ELSE IF r.info = "null" THEN IterFailed(p)
    ELSE IF r.info # "more" THEN Iter(TRUE, acc \o r.data, p, "no_more", {})
    ELSE Iter(FALSE, acc \o r.data, p + 1, "none", {})
\* (faulty variant: the page counter is not advanced)
FetchIterSamePage(acc, p, r) ==
    IF r.net_error THEN IterFailed(p)
    ELSE IF r.status # StatusOK THEN Iter(TRUE, acc, p, "status", {"API Error"})
    ELSE IF ~r.json THEN IterFailed(p)
    ELSE IF r.data = <<>> THEN Iter(TRUE, acc, p, "empty", {})
    ELSE IF r.info = "null" THEN IterFailed(p)
    ELSE IF r.info # "more" THEN Iter(TRUE, acc \o r.data, p, "no_more", {})
    ELSE Iter(FALSE, acc \o r.data, p, "none", {})
FetchIter(acc, p, r) ==
    \* requests.get raised: except Exception
    IF r.net_error THEN IterFailed(p)
    \* if response.status_code != 200: st.error(...); break
    ELSE IF r.status # StatusOK THEN Iter(TRUE, acc, p, "status", {"API Error"})
    \* response.json() or leads_data.get raised: except Exception
    ELSE IF ~r.json THEN IterFailed(p)
    \* if not leads: break
    ELSE IF r.data = <<>> THEN Iter(TRUE, acc, p, "empty", {})
    \* all_leads.extend(leads); info.get raised on a non-object info
    ELSE IF r.info = "null" THEN IterFailed(p)
    \* if not has_more: break
    ELSE IF r.info # "more" THEN Iter(TRUE, acc \o r.data, p, "no_more", {})
    \* page += 1
    ELSE Iter(FALSE, acc \o r.data, p + 1, "none", {})

\* ------------------------------------------------------------ datetimes
\* A datetime object: the wall-clock date and time it shows and, when it is
\* aware, its offset from UTC.  NoDatetime is a parse that raised.
Datetime(d, tod, aware, off) ==
    [ok |-> TRUE, day |-> d, tod |-> tod, aware |-> aware, off |-> off]
NoDatetime == [ok |-> FALSE, day |-> 0, tod |-> 0, aware |-> FALSE, off |-> 0]

\* Python truthiness of a Created_Time value.
Truthy(ct) == ct.kind \notin {"empty", "absent", "null"}
\* Only a string has .replace, and only a string is accepted by the parsers.
IsString(ct) == ct.kind \in {"iso", "compact", "bad", "empty"}

\* created_time_str.replace('Z', '+00:00')
ReplaceZ(ct) == IF ct.tz = "Z" THEN [ct EXCEPT !.tz = "offset", !.off = 0] ELSE ct

\* datetime.fromisoformat: every interpreter takes "YYYY-MM-DDTHH:MM:SS" with
\* no offset or with "+HH:MM"; only the lenient ones (3.11 and later) take a
\* trailing "Z" or an offset "+HHMM".
fromisoformat(ct, lenientBuild) ==
    IF ct.kind = "iso" /\ ct.tz = "none" THEN Datetime(ct.day, ct.tod, FALSE, 0)
    ELSE IF ct.kind = "iso" /\ ct.tz = "offset"
         THEN Datetime(ct.day, ct.tod, TRUE, ct.off)
    ELSE IF ct.kind = "iso" /\ ct.tz = "Z" /\ lenientBuild
         THEN Datetime(ct.day, ct.tod, TRUE, 0)
    ELSE IF ct.kind = "compact" /\ lenientBuild
         THEN Datetime(ct.day, ct.tod, TRUE, ct.off)
    ELSE NoDatetime

\* datetime.strptime(s, "%Y-%m-%dT%H:%M:%S%z"): the offset is required and
\* may be written "Z", "+HH:MM" or "+HHMM".
strptime(ct) ==
    IF ct.kind = "iso" /\ ct.tz = "offset" THEN Datetime(ct.day, ct.tod, TRUE, ct.off)
    ELSE IF ct.kind = "iso" /\ ct.tz = "Z" THEN Datetime(ct.day, ct.tod, TRUE, 0)
    ELSE IF ct.kind = "compact" THEN Datetime(ct.day, ct.tod, TRUE, ct.off)
    ELSE NoDatetime

\* parse_created_time: None (NoDatetime) for a falsy value; otherwise the
\* first of three attempts that does not raise, None when all raise.  A
\* value that is no string raises in each attempt.
parse_created_time(ct, lenientBuild) ==
    IF ~Truthy(ct) THEN NoDatetime
    ELSE IF ~IsString(ct) THEN NoDatetime
    ELSE LET first == fromisoformat(ReplaceZ(ct), lenientBuild)
             second == strptime(ct)
             third == fromisoformat(ct, lenientBuild)
         IN  IF first.ok THEN first
             ELSE IF second.ok THEN second
             ELSE IF third.ok THEN third
             ELSE NoDatetime

Hour == 60 * 60
Day == 24 * Hour
\* Seconds from day 0, 00:00:00 to what the datetime shows.
Wall(dt) == dt.day * Day + dt.tod
DateOf(wall) == wall \div Day
\* The outcome of classifying one row: a boolean, or an exception.
Returned(b) == [done |-> TRUE, raised |-> FALSE, value |-> b]
Raised == [done |-> TRUE, raised |-> TRUE, value |-> FALSE]

\* is_new_lead(created_dt, window) at the instant utcNow (seconds, UTC) on a
\* server whose zone is localOff seconds ahead of UTC.  'now' is aware, in
\* the zone of created_dt, when created_dt is aware and naive local time
\* otherwise; the bounds of yesterday_after_6pm are always naive, and
\* comparing them with an aware created_dt raises TypeError.
is_new_lead_none_is_new(created_dt, window, utcNow, localOff) == Returned(TRUE)
is_new_lead(created_dt, window, utcNow, localOff) ==
    IF ~created_dt.ok THEN Returned(FALSE)
    ELSE LET nowWall == utcNow + (IF created_dt.aware THEN created_dt.off
                                  ELSE localOff)
             yesterday == DateOf(nowWall - Day)
             start == yesterday * Day + 18 * Hour
             end == yesterday * Day + (Day - 1)
         IN  IF window = "today"
                 THEN Returned(created_dt.day = DateOf(nowWall))
             ELSE IF window = "last_24"
                 THEN Returned(Wall(created_dt) >= nowWall - 24 * Hour)
             ELSE IF window = "yesterday_after_6pm"
                 THEN IF created_dt.aware THEN Raised
                      ELSE Returned(start <= Wall(created_dt)
                                    /\ Wall(created_dt) <= end)
             ELSE Returned(FALSE)

\* The body of the new_mask loop for one row.
ClassifyRow(ct, window, cstart, cend, utcNow, localOff, lenientBuild) ==
    LET cdt == parse_created_time(ct, lenientBuild)
    IN  IF window = "custom"
        THEN IF ~cdt.ok THEN Returned(FALSE)
             ELSE Returned(cstart <= cdt.day /\ cdt.day <= cend)
        ELSE is_new_lead(cdt, window, utcNow, localOff)

\* fetch_leads_by_date_range_client, one lead: a falsy Created_Time takes
\* neither branch; a value that is no string raises AttributeError at
\* .replace and a string that does not parse raises ValueError, both caught
\* and the lead appended; a parsed one is appended when its date is in range.
DateKeepExclusive(lead, start, end, lenientBuild) ==
    LET ct == lead.Created_Time
        created_time == fromisoformat(ReplaceZ(ct), lenientBuild)
    IN  /\ Truthy(ct)
        /\ (IsString(ct) /\ created_time.ok)
              => (start < created_time.day /\ created_time.day < end)
DateKeep(lead, start, end, lenientBuild) ==
    LET ct == lead.Created_Time
        created_time == fromisoformat(ReplaceZ(ct), lenientBuild)
    IN  /\ Truthy(ct)
        /\ (IsString(ct) /\ created_time.ok)
              => (start <= created_time.day /\ created_time.day <= end)
fetch_leads_by_date_range_client(leads, start, end, lenientBuild) ==
    SelectSeq(leads, LAMBDA l : DateKeep(l, start, end, lenientBuild))

\* ------------------------------------------------- raw and normalized rows
\* A JSON value of a raw lead, as far as the normalizer tells values apart:
\* no such key, null, a number, or a string.
Absent == [t |-> "absent", s |-> ""]
Null == [t |-> "null", s |-> ""]
Number == [t |-> "number", s |-> ""]
Str(x) == [t |-> "str", s |-> x]
\* The Owner value of a raw lead: one of the above (name unused), or an
\* object whose 'name' is one of the above.
Plain(v) == [t |-> v.t, s |-> v.s, name |-> Absent]
Object(nameValue) == [t |-> "dict", s |-> "", name |-> nameValue]

\* dict.get(key, default): the default only when the key is absent.
Get(v, default) == IF v.t = "absent" THEN default ELSE v

\* process_leads_data: the owner name of a raw lead.
lead_owner_name(owner_obj) ==
    \* if isinstance(owner_obj, dict): owner_obj.get('name', 'Unassigned')
    IF owner_obj.t = "dict" THEN Get(owner_obj.name, Str("Unassigned"))
    \* elif isinstance(owner_obj, str): owner_obj if owner_obj else 'Unassigned'
    ELSE IF owner_obj.t = "str"
         THEN IF owner_obj.s # "" THEN Str(owner_obj.s) ELSE Str("Unassigned")
    ELSE Str("Unassigned")

\* process_leads_data: the row of one raw lead.
ProcessLead(lead) ==
    [ID |-> Get(lead.id, Str("N/A")),
     Lead_Owner |-> lead_owner_name(lead.Owner),
     Lead_Status |-> Get(lead.Lead_Status, Str("No Status")),
     Lead_Source |-> Get(lead.Lead_Source, Str("No Source")),
     Created_Time |-> IF lead.Created_Time.kind = "absent" THEN BadStamp
                      ELSE lead.Created_Time,
     Company |-> Get(lead.Company, Str("N/A"))]
\* What lead.get finds when the record handed to process_leads_data is a
\* row: the keys 'id', 'Owner', 'Lead_Status', 'Lead_Source' and
\* 'Created_Time' are not keys of a row ('ID', 'Lead Owner', 'Lead Status',
\* 'Lead Source', 'Created Time' are); 'Company' is the same key in both.
RowAsLead(row) ==
    [id |-> Absent, Owner |-> Plain(Absent), Lead_Status |-> Absent,
     Lead_Source |-> Absent, Created_Time |-> NoTime("absent"),
     Company |-> row.Company]
process_leads_data(leads) == [i \in 1..Len(leads) |-> ProcessLead(leads[i])]

\* The column a tab groups by.
Column(row, dim) ==
    CASE dim = "owner" -> row.Lead_Owner
      [] dim = "status" -> row.Lead_Status
      [] dim = "source" -> row.Lead_Source
\* rows.groupby(column).agg({'ID': 'count'}): one group per value of the
\* column that is not null (groupby drops null keys), each counting the rows
\* of the group whose ID is not null ('count' skips nulls).
GroupKeys(rows, dim) ==
    {Column(rows[i], dim) : i \in 1..Len(rows)} \ {Null}
group_by(rows, dim) ==
    [k \in GroupKeys(rows, dim) |->
        Cardinality({i \in 1..Len(rows) :
                        Column(rows[i], dim) = k /\ rows[i].ID # Null})]

\* A tab's multi-select filters: for each column the set of selected values.
Selection(owners, statuses, sources) ==
    [owner |-> owners, status |-> statuses, source |-> sources]
NoSelection == Selection({}, {}, {})
\* if selected: rows = rows[rows[column].isin(selected)]
ApplyFilter(rows, dim, selected) ==
    IF selected # {}
    THEN SelectSeq(rows, LAMBDA r : Column(r, dim) \in selected)
    ELSE rows
\* (faulty variant: a row is kept when any one selection holds its value)
tab_filter_any(rows, sel) ==
    IF sel = NoSelection THEN rows
    ELSE SelectSeq(rows, LAMBDA r : \/ r.Lead_Owner \in sel.owner
                                    \/ r.Lead_Status \in sel.status
                                    \/ r.Lead_Source \in sel.source)
\* The filters of a tab, applied one after the other.
tab_filter(rows, sel) ==
    ApplyFilter(ApplyFilter(ApplyFilter(rows, "owner", sel.owner),
                            "status", sel.status),
                "source", sel.source)

\* The filters a tab offers: tab2 (by owner) source; tab3 (by status) owner
\* and source; tab4 (by source) owner and status; tab5 (the table) all.
Offered(dim) ==
    CASE dim = "owner" -> {"source"}
      [] dim = "status" -> {"owner", "source"}
      [] dim = "source" -> {"owner", "status"}
      [] dim = "all" -> {"owner", "status", "source"}
\* The columns a tab reports the most common value of, per group.
Aggregated(dim) ==
    CASE dim = "owner" -> {}
      [] dim = "status" -> {"owner", "source"}
      [] dim = "source" -> {"owner", "status"}
      [] dim = "all" -> {}

\* x.value_counts(): how often each non-null value occurs in a column of a
\* group's rows.
Frequency(rows, dim, v) ==
    Cardinality({i \in 1..Len(rows) : Column(rows[i], dim) = v})
Counted(rows, dim) == {Column(rows[i], dim) : i \in 1..Len(rows)} \ {Null}
FirstAt(rows, dim, v) ==
    CHOOSE i \in 1..Len(rows) :
        /\ Column(rows[i], dim) = v
        /\ \A j \in 1..(i - 1) : Column(rows[j], dim) # v
\* (faulty variant: the first value of the column, however rare)
get_most_common_first_seen(rows, dim, tie) ==
    IF Counted(rows, dim) = {} THEN Str("N/A")
    ELSE LET first == CHOOSE i \in 1..Len(rows) :
                        /\ Column(rows[i], dim) # Null
                        /\ \A j \in 1..(i - 1) : Column(rows[j], dim) = Null
         IN  Column(rows[first], dim)
\* get_most_common: vc.index[0] if len(vc) > 0 else 'N/A'.  value_counts
\* orders by falling frequency; the order among equally frequent values is
\* the sort's: tie says whether the one seen first or the one seen last
\* comes out on top.
get_most_common(rows, dim, tie) ==
    LET values == Counted(rows, dim)
        top == {v \in values :
                  \A w \in values :
                      Frequency(rows, dim, w) <= Frequency(rows, dim, v)}
    IN  IF values = {} THEN Str("N/A")
        ELSE CHOOSE v \in top :
                \A w \in top :
                    IF tie = "first"
                    THEN FirstAt(rows, dim, v) <= FirstAt(rows, dim, w)
                    ELSE FirstAt(rows, dim, v) >= FirstAt(rows, dim, w)

\* The rows of one group.
GroupRows(rows, dim, k) == SelectSeq(rows, LAMBDA r : Column(r, dim) = k)
\* .agg({...: get_most_common}): per group, per reported column.
most_common_by(rows, dim, tie) ==
    [k \in GroupKeys(rows, dim) |->
        [o \in Aggregated(dim) |->
            get_most_common(GroupRows(rows, dim, k), o, tie)]]

\* ------------------------------------------------------------- messages
\* f"{value}": a string as it is, None as "None".
Format(v) == IF v.t = "str" THEN v.s ELSE "None"
\* Python truthiness of a field: a non-empty string.
Given(v) == v.t = "str" /\ v.s # ""
\* The row a message is generated for, as far as generate_message_text
\* reads it.
MessageLead(full, first, email, phone, company, source, desc) ==
    [Full_Name |-> full, First_Name |-> first, Email |-> email,
     Phone |-> phone, Company |-> company, Lead_Source |-> source,
     Description |-> desc]
\* The segments of the f-string: literal text at the odd positions, the
\* formatted values at the even ones.
ShortText(name, owner_name, company, source) ==
    <<"Hi ", name, ", this is ", owner_name, " from ", company,
      ". Thanks for your interest via ", source,
      "! Can we share details on ICF certification?">>
DetailedText(name, owner_name, company, source, desc, phone, email) ==
    <<"Hi ", name, ",\n\nThis is ", owner_name, " from ", company,
      ". Thank you for reaching out through ", source,
      ". I saw your message: '", desc,
      "'. I'd love to share more on our ICF certification program and how it helps career progression. Could I schedule a 15-minute call? Reply 'Yes' with a time that suits you.\n\nCall/WhatsApp: ",
      phone, "\nEmail: ", email>>
\* (faulty variant: a missing company is written 'N/A')
generate_message_text_company_na(lead, template, owner_name) ==
    LET name == IF Given(lead.Full_Name) THEN lead.Full_Name.s
                ELSE IF Given(lead.First_Name) THEN lead.First_Name.s
                ELSE "Friend"
        company == Format(Get(lead.Company, Str("N/A")))
        source == Format(Get(lead.Lead_Source, Str("No Source")))
    IN  IF template = "short" THEN ShortText(name, owner_name, company, source)
        ELSE DetailedText(name, owner_name, company, source,
                          Format(Get(lead.Description, Str(""))),
                          Format(Get(lead.Phone, Str(""))),
                          Format(Get(lead.Email, Str(""))))
generate_message_text(lead, template, owner_name) ==
    LET \* lead.get('Full Name') or lead.get('First Name') or 'Friend'
        name == IF Given(lead.Full_Name) THEN lead.Full_Name.s
                ELSE IF Given(lead.First_Name) THEN lead.First_Name.s
                ELSE "Friend"
        email == Format(Get(lead.Email, Str("")))
        phone == Format(Get(lead.Phone, Str("")))
        company == Format(Get(lead.Company, Str("")))
        source == Format(Get(lead.Lead_Source, Str("No Source")))
        desc == Format(Get(lead.Description, Str("")))
    IN  IF template = "short" THEN ShortText(name, owner_name, company, source)
        ELSE DetailedText(name, owner_name, company, source, desc, phone, email)

\* No message asked for.
NoMessage ==
    [lead |-> MessageLead(Absent, Absent, Absent, Absent, Absent, Absent, Absent),
     template |-> "short", owner_name |-> "", text |-> <<>>, done |-> FALSE]

\* ------------------------------------------------------- the owner tab
\* datetime.now().strftime('%Y-%m-%dT%H:%M:%S') at local time wall: the
\* date and the time of day to the second, no offset.
strftime(wall) == Time("iso", wall \div Day, wall % Day, "none", 0)

\* A record of the store: the form's, its text inputs other than the lead
\* source left empty, or an example.
ManualRow(id, owner, source, wall) ==
    [ID |-> Str(id), Lead_Owner |-> owner, Lead_Status |-> Str("New"),
     Lead_Source |-> Str(source), Created_Time |-> strftime(wall),
     Company |-> Str("")]
new_lead_fixed_id(n, owner, wall) ==
    ManualRow("manual-1", owner, "Form Submission", wall)
new_lead(n, owner, wall) ==
    ManualRow("manual-" \o ToString(n + 1), owner, "Form Submission", wall)
\* The three records of "Load example leads for this owner".
example_leads(owner, wall) ==
    <<ManualRow("example-1", owner, "Form Submission", wall),
      ManualRow("example-2", owner, "Google Ads 2025", wall),
      ManualRow("example-3", owner, "Google Ads 2025", wall - 2 * Hour)>>

\* st.session_state.manual_leads after the buttons of the owner tab were
\* handled: "Add lead" appends one record, "Load example leads for this
\* owner" extends the store by the three examples, anything else leaves it.
StoreAfterReplacing(store, owner, wall, press) ==
    IF press = "add" THEN <<new_lead(Len(store), owner, wall)>>
    ELSE IF press = "example" THEN example_leads(owner, wall)
    ELSE store
StoreAfter(store, owner, wall, press) ==
    IF press = "add" THEN Append(store, new_lead(Len(store), owner, wall))
    ELSE IF press = "example" THEN store \o example_leads(owner, wall)
    ELSE store

\* df['Lead Owner'].unique()
all_owners(rows) == {rows[i].Lead_Owner : i \in 1..Len(rows)}

\* owner_df: the rows of the owner, with every record of the store put in
\* front of them when the store is not empty.
MergeOwner(manual, rows, owner) ==
    LET owner_rows == SelectSeq(rows, LAMBDA r : r.Lead_Owner = owner)
    IN  IF manual # <<>> THEN manual \o owner_rows ELSE owner_rows

\* new_mask: the classification of each merged row, up to the first that
\* raises.
NewMask(rows, window, cstart, cend, utcNow, localOff, lenientBuild) ==
    LET each == [i \in 1..Len(rows) |->
                    ClassifyRow(rows[i].Created_Time, window, cstart, cend,
                                utcNow, localOff, lenientBuild)]
    IN  [done |-> TRUE,
         raised |-> \E i \in 1..Len(rows) : each[i].raised,
         value |-> [i \in 1..Len(rows) |-> each[i].value]]

\* A cache miss of get_access_token_cached: one exchange, whose outcome
\* st.cache_data stores whatever it is, unless the call raised.  posts counts
\* the requests sent.
Exchange(cache, r, jsonErrCaught, t) ==
    LET res == get_access_token(r, jsonErrCaught, t)
    IN  [hit |-> FALSE, raised |-> res.raised, value |-> res.value,
         msgs |-> res.msgs, posts |-> 1,
         cache |-> IF res.raised THEN cache
                   ELSE Entry(res.value, t, res.value # None)]

\* get_access_token_cached: the cached token while its entry is served,
\* otherwise the outcome of one exchange.  (Faulty variant: no cache.)
get_access_token_uncached(cache, r, jsonErrCaught, t) ==
    Exchange(cache, r, jsonErrCaught, t)
get_access_token_cached(cache, r, jsonErrCaught, t) ==
    IF CacheHit(cache, TokenTTL, t)
    THEN [hit |-> TRUE, raised |-> FALSE, value |-> cache.value,
          msgs |-> {}, posts |-> 0, cache |-> cache]
    ELSE Exchange(cache, r, jsonErrCaught, t)

\* ---------------------------------------------------------------- state
VARIABLES
    now,            \* wall clock, seconds
    tokenCache,     \* the cache entry of get_access_token_cached
    snapCache,      \* the cache of fetch_all_leads_cached: key -> entry
    pc,             \* position of the script run
    fkey,           \* cache key of the fetch_all_leads_cached call in progress
    forcing,        \* that call is the forced one of the refresh button
    force_pressed,  \* the force-refresh button was pressed for this run
    start_date,     \* selected date range
    end_date,
    access_token,   \* fetch_all_leads: its argument
    page,           \* fetch_all_leads: page counter
    acc,            \* fetch_all_leads: all_leads accumulated so far
    all_leads,      \* create_dashboard: what fetch_all_leads_cached returned
    filtered_leads, \* create_dashboard: the date-filtered leads on display
    buttonShown,    \* the last run rendered the force-refresh button
    forceCount,     \* forced refreshes started so far
    \* history of the current fetch_all_leads_cached call and script run
    load_hit,       \* the call was served from the cache
    idReqs,         \* requests sent to the identity endpoint
    tokenFailed,    \* an exchange of this call failed
    pagesAsked,     \* page numbers requested, in order
    pagesGot,       \* bodies of the 200 JSON responses received, in order
    fetch_exit,     \* how fetch_all_leads left its loop
    last_status,    \* status of the last page response (0: no response)
    msgs,           \* messages reported to the operator in this run
    raised,         \* the run ended in an uncaught exception
    lastForced,     \* the last completed forced refresh: what it returned,
                    \* when, and whether its fetch ended without a failure
    \* create_dashboard after the date filter, and the owner tab
    df,             \* the normalized rows (process_leads_data)
    stats,          \* the group statistics of one tab
    manual_leads,   \* st.session_state['manual_leads']
    owner_selected, \* the owner chosen in the owner tab
    owner_df,       \* the owner tab's merged rows
    row_time,       \* the 'Created Time' of the row being classified
    time_window,    \* the time window chosen for 'new' leads
    custom_start,   \* the custom window's dates
    custom_end,
    is_new,         \* the classification of the row
    lenient,        \* the installed Python's fromisoformat accepts every
                    \* ISO-8601 form (3.11 and later)
    utcoffset,      \* the server's time zone, seconds ahead of UTC
    message         \* the outreach message being generated for a row

cacheVars == <<tokenCache, snapCache>>
fetchVars == <<access_token, page, acc>>
histVars == <<idReqs, tokenFailed, pagesAsked, pagesGot, fetch_exit, last_status>>
vars == <<now, tokenCache, snapCache, pc, fkey, forcing, force_pressed, start_date,
          end_date, access_token, page, acc, all_leads, filtered_leads,
          buttonShown, forceCount, load_hit, idReqs, tokenFailed, pagesAsked,
          pagesGot, fetch_exit, last_status, msgs, raised, lastForced,
          df, stats, manual_leads, owner_selected, owner_df, row_time,
          time_window, custom_start, custom_end, is_new, lenient, utcoffset,
             message>>
tabVars == <<df, stats, manual_leads, owner_selected, owner_df, row_time,
             time_window, custom_start, custom_end, is_new, lenient, utcoffset,
             message>>

Days == 1..MaxDay

Lookup(key) == IF key \in DOMAIN snapCache THEN snapCache[key] ELSE NoEntry

\* The fetch machinery at rest: empty caches, no call in progress.
FetchIdle ==
    /\ tokenCache = NoEntry
    /\ snapCache = [k \in {} |-> NoEntry]
    /\ fkey = DefaultKey
    /\ forcing = FALSE
    /\ force_pressed = FALSE
    /\ access_token = None
    /\ page = 1
    /\ acc = <<>>
    /\ buttonShown = FALSE
    /\ forceCount = 0
    /\ load_hit = FALSE
    /\ idReqs = 0
    /\ tokenFailed = FALSE
    /\ pagesAsked = <<>>
    /\ pagesGot = <<>>
    /\ fetch_exit = "none"
    /\ last_status = 0
    /\ msgs = {}
    /\ raised = FALSE
    /\ lastForced = [done |-> FALSE, ok |-> FALSE, value |-> <<>>, stored |-> 0]

\* Nothing normalized, aggregated or classified yet; no manual lead.
NoVerdict == [done |-> FALSE, raised |-> FALSE, value |-> FALSE]
RowsIdle ==
    /\ df = <<>>
    /\ stats = <<>>
TabIdle ==
    /\ manual_leads = <<>>
    /\ owner_selected = Str("Unassigned")
    /\ owner_df = <<>>
    /\ message = NoMessage
ClassifierIdle ==
    /\ row_time = EmptyStamp
    /\ time_window = "today"
    /\ custom_start = 1
    /\ custom_end = 1
    /\ is_new = NoVerdict
    /\ lenient = TRUE
    /\ utcoffset = 0

\* No selection made, nothing loaded.
NothingLoaded ==
    /\ start_date = 1
    /\ end_date = MaxDay
    /\ all_leads = <<>>
    /\ filtered_leads = <<>>

Init ==
    /\ now = 0
    /\ pc = "idle"
    /\ NothingLoaded
    /\ FetchIdle
    /\ RowsIdle
    /\ TabIdle
    /\ ClassifierIdle

\* The history of a fetch_all_leads_cached call starts empty.
ResetHist ==
    /\ idReqs' = 0
    /\ tokenFailed' = FALSE
    /\ pagesAsked' = <<>>
    /\ pagesGot' = <<>>
    /\ fetch_exit' = "none"
    /\ last_status' = 0

\* The script run returns: its locals are gone.
EndRun ==
    /\ pc' = "idle"
    /\ all_leads' = <<>>
    /\ ResetHist

\* The wall clock advances.
Tick ==
    /\ UNCHANGED tabVars
    /\ now + TickStep <= MaxTime
    /\ now' = now + TickStep
    /\ UNCHANGED <<tokenCache, snapCache, pc, fkey, forcing, force_pressed, start_date,
                   end_date, access_token, page, acc, all_leads, filtered_leads,
                   buttonShown, forceCount, load_hit, idReqs, tokenFailed,
                   pagesAsked, pagesGot, fetch_exit, last_status, msgs, raised,
                   lastForced>>

\* The operator triggers a run of create_dashboard with a date range, by a
\* widget change or by pressing the force-refresh button of the last render.
RunScript(sd, ed, press) ==
    /\ UNCHANGED tabVars
    /\ pc = "idle"
    /\ press => (buttonShown /\ forceCount < MaxForce)
    /\ pc' = "load"
    /\ fkey' = DefaultKey
    /\ forcing' = FALSE
    /\ force_pressed' = press
    /\ start_date' = sd
    /\ end_date' = ed
    /\ all_leads' = <<>>
    /\ filtered_leads' = <<>>
    /\ buttonShown' = FALSE
    /\ msgs' = {}
    /\ raised' = FALSE
    /\ load_hit' = FALSE
    /\ ResetHist
    /\ UNCHANGED <<now, cacheVars, fetchVars, forceCount, lastForced>>

\* Where the caller of fetch_all_leads_cached continues: the first call of the
\* run goes on to render, the forced call ends in st.experimental_rerun().
AfterLoad(forced) == IF forced THEN "rerun" ELSE "render"

\* Whether fetch_all_leads_cached serves the call under this key from the
\* cache at time t.  (Faulty variant: never.)
SnapshotNeverServed(key, t) == FALSE
SnapshotServed(key, t) == CacheHit(Lookup(key), SnapTTL, t)

\* fetch_all_leads_cached(...): the cache lookup under the call's key.
Load ==
    /\ UNCHANGED tabVars
    /\ pc = "load"
    /\ IF SnapshotServed(fkey, now)
       THEN /\ all_leads' = Lookup(fkey).value
            /\ load_hit' = TRUE
            /\ pc' = AfterLoad(forcing)
            /\ lastForced' = IF ~forcing THEN lastForced
                             ELSE [done |-> TRUE, ok |-> Lookup(fkey).fromOk,
                                   value |-> Lookup(fkey).value,
                                   stored |-> now]
       ELSE /\ pc' = "token"
            /\ load_hit' = FALSE
            /\ UNCHANGED <<all_leads, lastForced>>
    /\ UNCHANGED <<now, cacheVars, fkey, forcing, force_pressed, start_date,
                   end_date, fetchVars, filtered_leads, buttonShown, forceCount, histVars,
                   msgs, raised>>

\* token = get_access_token_cached(), then fetch_all_leads starts at page 1.
\* An exception of the exchange ends the run.
GetToken(r, jsonErrCaught) ==
    /\ UNCHANGED tabVars
    /\ pc = "token"
    /\ LET res == get_access_token_cached(tokenCache, r, jsonErrCaught, now)
       IN  /\ tokenCache' = res.cache
           /\ idReqs' = idReqs + res.posts
           /\ tokenFailed' = (~res.hit /\ (res.raised \/ res.value = None))
           /\ msgs' = msgs \cup res.msgs
           /\ raised' = res.raised
           /\ pc' = IF res.raised THEN "idle" ELSE "paging"
           /\ access_token' = IF res.raised THEN access_token ELSE res.value
    /\ page' = 1
    /\ acc' = <<>>
    /\ UNCHANGED <<now, snapCache, fkey, forcing, force_pressed, start_date,
                   end_date, all_leads, filtered_leads, buttonShown, forceCount, load_hit,
                   pagesAsked, pagesGot, fetch_exit, last_status, lastForced>>

\* One page request of fetch_all_leads.  When the loop ends the function
\* returns and st.cache_data stores the returned list under the call's key.
FetchPageOn(r) ==
    /\ UNCHANGED tabVars
    /\ pc = "paging"
    /\ LET it == FetchIter(acc, page, r)
       IN  /\ pagesAsked' = Append(pagesAsked, page)
           /\ last_status' = r.status
           /\ pagesGot' = IF ~r.net_error /\ r.status = 200 /\ r.json
                          THEN Append(pagesGot, [data |-> r.data, info |-> r.info])
                          ELSE pagesGot
           /\ msgs' = msgs \cup it.msgs
           /\ page' = it.page
           /\ IF it.done
              THEN /\ fetch_exit' = it.exit
                   /\ acc' = <<>>
                   /\ all_leads' = it.all_leads
                   /\ snapCache' = (fkey :> Entry(it.all_leads, now,
                                       it.exit \in {"empty", "no_more"}))
                                   @@ snapCache
                   /\ pc' = AfterLoad(forcing)
                   /\ lastForced' = IF ~forcing THEN lastForced
                                    ELSE [done |-> TRUE,
                                          ok |-> it.exit \in {"empty", "no_more"},
                                          value |-> it.all_leads,
                                          stored |-> now]
              ELSE /\ acc' = it.all_leads
                   /\ UNCHANGED <<fetch_exit, all_leads, snapCache, pc, lastForced>>
    /\ UNCHANGED <<now, tokenCache, fkey, forcing, force_pressed, start_date,
                   end_date, access_token, filtered_leads, buttonShown, forceCount,
                   load_hit, idReqs, tokenFailed, raised>>

\* The next page request of the fetch in progress, answered by the server.
FetchPage == \E r \in LeadResponses(page, access_token) : FetchPageOn(r)

\* create_dashboard after the load: the two early returns, the date filter,
\* and, when the force-refresh button was pressed, the forced call
\* fetch_all_leads_cached(datetime.now()).
RenderRun ==
    /\ pc = "render"
    /\ LET f == fetch_leads_by_date_range_client(all_leads, start_date, end_date, lenient)
       IN  IF all_leads = <<>>
           THEN /\ msgs' = msgs \cup {"No leads found"}
                /\ EndRun
                /\ UNCHANGED <<filtered_leads, buttonShown, fkey, forcing,
                               forceCount, load_hit>>
           ELSE IF f = <<>>
           THEN /\ msgs' = msgs \cup {"No leads found for the selected date range"}
                /\ EndRun
                /\ UNCHANGED <<filtered_leads, buttonShown, fkey, forcing,
                               forceCount, load_hit>>
           ELSE /\ filtered_leads' = f
                /\ msgs' = msgs
                /\ IF force_pressed
                   THEN /\ pc' = "load"
                        /\ fkey' = ForceKey(forceCount + 1)
                        /\ forcing' = TRUE
                        /\ forceCount' = forceCount + 1
                        /\ load_hit' = FALSE
                        /\ ResetHist
                        /\ UNCHANGED <<buttonShown, all_leads>>
                   ELSE /\ EndRun
                        /\ buttonShown' = TRUE
                        /\ UNCHANGED <<fkey, forcing, forceCount, load_hit>>
    /\ UNCHANGED <<now, cacheVars, force_pressed, start_date, end_date,
                   fetchVars, raised, lastForced>>

\* A run in which the tabs leave the session's state alone.
Render ==
    /\ UNCHANGED tabVars
    /\ RenderRun

\* st.experimental_rerun() after the forced call: the script starts again
\* with the same selection and the button released.
Rerun ==
    /\ UNCHANGED tabVars
    /\ pc = "rerun"
    /\ pc' = "load"
    /\ fkey' = DefaultKey
    /\ forcing' = FALSE
    /\ force_pressed' = FALSE
    /\ all_leads' = <<>>
    /\ filtered_leads' = <<>>
    /\ msgs' = {}
    /\ load_hit' = FALSE
    /\ ResetHist
    /\ UNCHANGED <<now, cacheVars, start_date, end_date, fetchVars, buttonShown,
                   forceCount, raised, lastForced>>

Next ==
    \/ Tick
    \/ \E sd \in Days, ed \in Days, press \in BOOLEAN : RunScript(sd, ed, press)
    \/ Load
    \/ \E r \in TokenResponses, c \in BOOLEAN : GetToken(r, c)
    \/ FetchPage
    \/ Render
    \/ Rerun

Spec == Init /\ [][Next]_vars

\* The while loop of fetch_all_leads runs to its next request: requests.get
\* returns or raises within its timeout.
\* The session always shows the whole date range.
NextFetching ==
    \/ Tick
    \/ \E press \in BOOLEAN : RunScript(1, MaxDay, press)
    \/ Load
    \/ \E r \in TokenResponses, c \in BOOLEAN : GetToken(r, c)
    \/ FetchPage
    \/ Render
    \/ Rerun
SpecFetching == Init /\ [][NextFetching]_vars /\ WF_vars(FetchPage)


\* ------------------------------------------- filter, normalize, aggregate
\* The part of a script run after the snapshot is loaded, on every snapshot
\* the remote collection can deliver: filter, normalize, group.
RawLead(id, owner, status, source, ct) ==
    [id |-> id, Owner |-> owner, Lead_Status |-> status,
     Lead_Source |-> source, Created_Time |-> ct, Company |-> Str("Acme")]
WithCompany(lead, company) == [lead EXCEPT !.Company = company]

OwnerValues ==
    {Plain(Absent), Plain(Null), Plain(Number), Plain(Str("")), Plain(Str("Ann")),
     Object(Absent), Object(Null), Object(Str("")), Object(Str("Bob"))}
FieldValues == {Absent, Null, Str("x")}
HalfPastFive == 5 * 3600 + 1800
TimesOfDay == {0, 86399}
TimeValues ==
    {Time("iso", d, tod, tz, IF tz = "offset" THEN HalfPastFive ELSE 0) :
        d \in Days, tod \in TimesOfDay, tz \in {"none", "Z", "offset"}}
    \cup {Time("compact", d, 0, "offset", HalfPastFive) : d \in Days}
    \cup {NoTime(k) : k \in {"bad", "empty", "absent", "null", "number"}}

\* One lead of every kind in a field, the other fields ordinary.
RawLeads ==
    {RawLead(Str("1"), o, Str("x"), Str("x"), Stamp(1)) : o \in OwnerValues}
    \cup {RawLead(Str("1"), Object(Str("Bob")), Str("x"), Str("x"), ct) :
            ct \in TimeValues}
    \cup {RawLead(Str("1"), Object(Str("Bob")), v, Str("x"), Stamp(1)) :
            v \in FieldValues}
    \cup {RawLead(Str("1"), Object(Str("Bob")), Str("x"), v, Stamp(1)) :
            v \in FieldValues}
    \cup {RawLead(v, Object(Str("Bob")), Str("x"), Str("x"), Stamp(1)) :
            v \in {Absent, Null}}
    \cup {WithCompany(RawLead(Str("1"), Object(Str("Bob")), Str("x"), Str("x"),
                               Stamp(1)), v) : v \in {Absent, Null}}
\* The leads that follow the first one of a snapshot.
Fillers ==
    {RawLead(Str("2"), Object(Str("Bob")), Str("x"), Str("x"), Stamp(1)),
     RawLead(Str("3"), Plain(Str("Ann")), Str("y"), Null, Stamp(MaxDay)),
     RawLead(Str("4"), Object(Null), Null, Str("y"), BadStamp)}
Snapshots ==
    {<<>>} \cup UNION {{s \in [1..n -> RawLeads \cup Fillers] :
                          \A i \in 2..n : s[i] \in Fillers} : n \in 1..MaxLeads}

Dimensions == {"owner", "status", "source"}

InitLeads ==
    /\ now = 0
    /\ pc = "filter"
    /\ start_date \in Days
    /\ end_date \in Days
    /\ start_date <= end_date
    /\ all_leads \in Snapshots
    /\ filtered_leads = <<>>
    /\ FetchIdle /\ RowsIdle /\ TabIdle
    /\ row_time = EmptyStamp /\ time_window = "today"
    /\ custom_start = 1 /\ custom_end = 1 /\ is_new = NoVerdict
    /\ lenient \in BOOLEAN
    /\ utcoffset = 0

leadVars == <<now, tokenCache, snapCache, fkey, forcing, force_pressed,
              start_date, end_date, access_token, page, acc, all_leads,
              buttonShown, forceCount, load_hit, idReqs, tokenFailed,
              pagesAsked, pagesGot, fetch_exit, last_status, msgs, raised,
              lastForced, manual_leads, owner_selected, owner_df, row_time,
              time_window, custom_start, custom_end, is_new, lenient, utcoffset,
             message>>

\* filtered_leads = fetch_leads_by_date_range_client(all_leads, ...)
FilterLeads ==
    /\ pc = "filter"
    /\ all_leads # <<>>
    /\ filtered_leads' =
         fetch_leads_by_date_range_client(all_leads, start_date, end_date, lenient)
    /\ pc' = "process"
    /\ UNCHANGED <<leadVars, df, stats>>

\* df = process_leads_data(filtered_leads), unless nothing passed the filter
ProcessLeads ==
    /\ pc = "process"
    /\ filtered_leads # <<>>
    /\ df' = process_leads_data(filtered_leads)
    /\ pc' = "tabs"
    /\ UNCHANGED <<leadVars, filtered_leads, stats>>

\* What a tab shows: the rows its filters keep and, per group, their count
\* and the most common value of the reported columns.
TabStats(dim, sel, tie) ==
    LET rows == tab_filter(df, sel)
    IN  [dim |-> dim, sel |-> sel, tie |-> tie, rows |-> rows,
         count |-> group_by(rows, dim),
         common |-> most_common_by(rows, dim, tie)]
\* The values a multi-select offers: df[column].unique().
Options(dim) == {Column(df[i], dim) : i \in 1..Len(df)}
Selections(dim) ==
    {Selection(o, st, so) :
        o \in IF "owner" \in Offered(dim) THEN SUBSET Options("owner") ELSE {{}},
        st \in IF "status" \in Offered(dim) THEN SUBSET Options("status") ELSE {{}},
        so \in IF "source" \in Offered(dim) THEN SUBSET Options("source") ELSE {{}}}
TieOrders == {"first", "last"}

\* One of tab2, tab3, tab4: the rows are filtered by the tab's selections
\* and grouped by the tab's column.
GroupBy(dim, sel, tie) ==
    /\ pc = "tabs"
    /\ stats' = TabStats(dim, sel, tie)
    /\ pc' = "grouped"
    /\ UNCHANGED <<leadVars, filtered_leads, df>>

NextLeads ==
    \/ FilterLeads
    \/ ProcessLeads
    \/ \E dim \in Dimensions, tie \in TieOrders : GroupBy(dim, NoSelection, tie)

SpecLeads == InitLeads /\ [][NextLeads]_vars

\* ---------------------------------------------------- the tabs' filters
\* The tabs of one run on small tables whose columns hold two values and
\* null, under every selection the multi-selects offer.
TabLeads ==
    {RawLead(Str("1"), Object(Str("Bob")), Str("x"), Str("x"), Stamp(1)),
     RawLead(Str("2"), Plain(Str("Ann")), Str("x"), Str("y"), Stamp(1)),
     RawLead(Str("3"), Object(Str("Bob")), Str("y"), Null, Stamp(1)),
     RawLead(Str("4"), Plain(Str("Ann")), Null, Str("x"), Stamp(1))}
TabSnapshots == UNION {[1..n -> TabLeads] : n \in 1..MaxRows}

InitTabs ==
    /\ now = 0
    /\ pc = "tabs"
    /\ start_date = 1 /\ end_date = MaxDay
    /\ all_leads \in TabSnapshots
    /\ lenient = TRUE
    /\ utcoffset = 0
    /\ filtered_leads =
         fetch_leads_by_date_range_client(all_leads, start_date, end_date, lenient)
    /\ df = process_leads_data(filtered_leads)
    /\ stats = <<>>
    /\ FetchIdle /\ TabIdle
    /\ row_time = EmptyStamp /\ time_window = "today"
    /\ custom_start = 1 /\ custom_end = 1 /\ is_new = NoVerdict

\* tab5: the table of all rows that the three selections keep.
ShowAll(sel) ==
    /\ pc = "tabs"
    /\ stats' = [dim |-> "all", sel |-> sel, tie |-> "first",
                 rows |-> tab_filter(df, sel), count |-> <<>>, common |-> <<>>]
    /\ pc' = "listed"
    /\ UNCHANGED <<leadVars, filtered_leads, df>>

NextTabs ==
    \/ \E dim \in Dimensions, tie \in TieOrders :
          \E sel \in Selections(dim) : GroupBy(dim, sel, tie)
    \/ \E sel \in Selections("all") : ShowAll(sel)

SpecTabs == InitTabs /\ [][NextTabs]_vars

\* ------------------------------------------------ generating a message
\* generate_message_text on rows with every field given, empty, null or
\* missing, in both styles.
MessageFields == {Absent, Null, Str(""), Str("v")}
MessageLeads ==
    {MessageLead(full, first, contact, contact, company, source, desc) :
        full \in MessageFields, first \in {Absent, Str("f")},
        contact \in {Absent, Str("c")}, company \in MessageFields \cup {Str("Acme")},
        source \in {Absent, Null, Str("Web")}, desc \in {Absent, Str("d")}}
Templates == {"short", "detailed"}

InitMessage ==
    /\ now = 0
    /\ pc = "message"
    /\ NothingLoaded /\ FetchIdle /\ RowsIdle /\ ClassifierIdle
    /\ manual_leads = <<>>
    /\ owner_selected \in {Str("Ann"), Str("Bob")}
    /\ owner_df = <<>>
    /\ message \in {[lead |-> l, template |-> t, owner_name |-> owner_selected.s,
                      text |-> <<>>, done |-> FALSE] :
                        l \in MessageLeads, t \in Templates}

\* msg = generate_message_text(row, template=..., owner_name=owner_selected)
GenerateMessage ==
    /\ pc = "message"
    /\ message' = [message EXCEPT
                     !.text = generate_message_text(message.lead,
                                  message.template, message.owner_name),
                     !.done = TRUE]
    /\ pc' = "generated"
    /\ UNCHANGED <<now, tokenCache, snapCache, fkey, forcing, force_pressed,
                   start_date, end_date, access_token, page, acc, all_leads,
                   filtered_leads, buttonShown, forceCount, load_hit, idReqs,
                   tokenFailed, pagesAsked, pagesGot, fetch_exit, last_status,
                   msgs, raised, lastForced, df, stats, manual_leads,
                   owner_selected, owner_df, row_time, time_window,
                   custom_start, custom_end, is_new, lenient, utcoffset>>

NextMessage == GenerateMessage

SpecMessage == InitMessage /\ [][NextMessage]_vars



\* ------------------------------------------------------- owner tab runs
\* Script runs that show the owner tab, in one session, on a fixed table of
\* normalized rows.
OwnerTabSnapshots ==
    {<<RawLead(Str("2"), Object(Str("Bob")), Str("x"), Str("x"), Stamp(1)),
       RawLead(Str("3"), Plain(Str("Ann")), Str("y"), Str("x"), Stamp(MaxDay))>>,
     <<RawLead(Str("3"), Plain(Str("Ann")), Str("y"), Str("x"), Stamp(1)),
       RawLead(Str("2"), Object(Str("Bob")), Str("x"), Str("x"), Stamp(1)),
       RawLead(Str("5"), Plain(Str("Ann")), Str("x"), Str("y"), Stamp(MaxDay))>>}
Windows == {"today", "last_24", "yesterday_after_6pm", "custom"}
Presses == {"none", "add", "example"}

InitOwnerTab ==
    /\ now = 0
    /\ pc = "tab"
    /\ start_date = 1 /\ end_date = MaxDay
    /\ all_leads \in OwnerTabSnapshots
    /\ lenient \in BOOLEAN
    /\ utcoffset \in {0, HalfPastFive}
    /\ filtered_leads =
         fetch_leads_by_date_range_client(all_leads, start_date, end_date, lenient)
    /\ df = process_leads_data(filtered_leads)
    /\ stats = <<>>
    /\ FetchIdle /\ TabIdle
    /\ row_time = EmptyStamp /\ time_window = "today"
    /\ custom_start = 1 /\ custom_end = 1 /\ is_new = NoVerdict

\* One run of the owner tab: the owner and the time window are chosen, one
\* of the two buttons may have been pressed, the store is merged with the
\* owner's rows and every merged row is classified.
OwnerTabWithin(owner, window, press, cap) ==
    LET wall == now + utcoffset
        today == DateOf(wall)
        loaded == StoreAfter(manual_leads, owner, wall, press)
        merged == MergeOwner(loaded, df, owner)
        cstart == IF window = "custom" THEN today - 1 ELSE custom_start
        cend == IF window = "custom" THEN today ELSE custom_end
    IN  /\ pc \in {"tab", "shown"}
        /\ owner \in all_owners(df)
        /\ Len(loaded) <= cap
        /\ owner_selected' = owner
        /\ time_window' = window
        /\ custom_start' = cstart
        /\ custom_end' = cend
        /\ manual_leads' = loaded
        /\ owner_df' = merged
        /\ is_new' = NewMask(merged, window, cstart, cend, now, utcoffset, lenient)
        /\ pc' = "shown"
        /\ UNCHANGED <<now, tokenCache, snapCache, fkey, forcing, force_pressed,
                       start_date, end_date, access_token, page, acc, all_leads,
                       filtered_leads, buttonShown, forceCount, load_hit, idReqs,
                       tokenFailed, pagesAsked, pagesGot, fetch_exit, last_status,
                       msgs, raised, lastForced, df, stats, row_time, lenient,
                       utcoffset, message>>

OwnerTab(owner, window, press) == OwnerTabWithin(owner, window, press, MaxManual)

NextOwnerTab ==
    \/ Tick
    \/ \E owner \in all_owners(df), window \in Windows, press \in Presses :
          OwnerTab(owner, window, press)

SpecOwnerTab == InitOwnerTab /\ [][NextOwnerTab]_vars

\* ------------------------------------------------- classifying one row
\* The body of the new_mask loop on every Created Time a row can carry, at
\* several instants of the day MaxDay, under every time window.
Today == MaxDay
RowTimes ==
    {Time("iso", d, tod, tz, 0) :
        d \in (Today - 2)..Today,
        tod \in {0, 18 * Hour - 1, 18 * Hour, 19 * Hour, Day - 1},
        tz \in {"none", "Z", "offset"}}
    \cup {Time("iso", d, 19 * Hour, "offset", HalfPastFive) :
            d \in (Today - 2)..Today}
    \cup {Time("compact", d, 19 * Hour, "offset", HalfPastFive) :
            d \in (Today - 1)..Today}
    \cup {NoTime(k) : k \in {"bad", "empty", "absent", "null", "number"}}
Instants == {Today * Day + tod : tod \in {0, 9 * Hour, 19 * Hour, Day - 1}}

InitRecency ==
    /\ pc = "row"
    /\ now \in Instants
    /\ utcoffset \in {0, HalfPastFive}
    /\ lenient \in BOOLEAN
    /\ row_time \in RowTimes
                     \cup {strftime(now + utcoffset),
                           Time("iso", DateOf(now), now % Day, "Z", 0)}
    /\ time_window \in Windows
    /\ custom_start \in (Today - 1)..Today
    /\ custom_end \in (Today - 1)..Today
    /\ custom_start <= custom_end
    /\ time_window # "custom" => custom_start = Today - 1 /\ custom_end = Today
    /\ is_new = NoVerdict
    /\ NothingLoaded /\ FetchIdle /\ RowsIdle /\ TabIdle

\* cdt = parse_created_time(r.get('Created Time', '')) and the append to
\* new_mask, or the exception that ends the run.
Classify ==
    /\ pc = "row"
    /\ is_new' = ClassifyRow(row_time, time_window, custom_start, custom_end,
                             now, utcoffset, lenient)
    /\ pc' = IF is_new'.raised THEN "raised" ELSE "classified"
    /\ UNCHANGED <<now, tokenCache, snapCache, fkey, forcing, force_pressed,
                   start_date, end_date, access_token, page, acc, all_leads,
                   filtered_leads, buttonShown, forceCount, load_hit, idReqs,
                   tokenFailed, pagesAsked, pagesGot, fetch_exit, last_status,
                   msgs, raised, lastForced, df, stats, manual_leads,
                   owner_selected, owner_df, row_time, time_window,
                   custom_start, custom_end, lenient, utcoffset, message>>

NextRecency == Classify

SpecRecency == InitRecency /\ [][NextRecency]_vars




\* ===================================================== the claims

\* The records of the pages received by the fetch in progress, in page order.
Received == Flatten([i \in 1..Len(pagesGot) |-> pagesGot[i].data])

\* A page after which fetch_all goes on: it has records and reports
\* more_records = true.
Continues(g) == g.data # <<>> /\ g.info = "more"

\* C1: after a forced refresh has completed (its fetch without a failure and
\* with records),
\* what a non-forced load hands to the render, before one hour has passed
\* since that refresh, is the snapshot the forced fetch produced.
C1_LoadServesForcedSnapshot ==
    (pc = "render" /\ lastForced.done /\ lastForced.ok
        /\ lastForced.value # <<>> /\ now - lastForced.stored < 60 * 60)
        => all_leads = lastForced.value

\* C2: a forced refresh that has returned was not served from the cache: it
\* ran the paginated fetch, and its first page request was for page 1.
C2_ForcedRefreshRefetches ==
    pc = "rerun" =>
        /\ ~load_hit
        /\ pagesAsked # <<>>
        /\ pagesAsked[1] = 1
        /\ fetch_exit # "none"

\* C2 witness: a forced refresh has returned while the entry of the
\* non-forced key was still being served, and it paged beyond page 1.
C2_Witness ==
    /\ pc = "rerun"
    /\ CacheHit(Lookup(DefaultKey), SnapTTL, now)
    /\ Len(pagesAsked) > 1

\* C3: every entry of the snapshot cache holds the result of a fetch that
\* succeeded (no token failure, no non-2xx page response, no exception).
C3_OnlySuccessfulSnapshotsCached ==
    \A k \in DOMAIN snapCache : snapCache[k].fromOk

\* C4: the token cache entry only ever holds a token issued by a successful
\* exchange, never the None of a failed one.
C4_OnlyIssuedTokensCached ==
    tokenCache.present => tokenCache.value # None

\* A step that executes token = get_access_token_cached().
GetTokenStep == pc = "token" /\ pc' # "token"

\* C5: a get_token call made less than 30 minutes after the successful
\* exchange whose token is cached returns that token and sends no request to
\* the identity endpoint; a call made 30 minutes or more after it sends
\* exactly one.
C5_TokenServedForThirtyMinutes ==
    [][(GetTokenStep /\ tokenCache.present /\ tokenCache.value # None) =>
          IF now - tokenCache.stored < 30 * 60
          THEN /\ pc' = "paging"
               /\ access_token' = tokenCache.value
               /\ idReqs' = idReqs
               /\ tokenCache' = tokenCache
          ELSE idReqs' = idReqs + 1]_vars

\* C5 witness: the fetch runs on a token that was issued earlier and served
\* from the cache without a request.
C5_Witness ==
    /\ pc = "paging"
    /\ idReqs = 0
    /\ pagesAsked = <<>>
    /\ access_token # None
    /\ access_token = tokenCache.value
    /\ access_token # Token(now)

\* C6: when the token exchange of a fetch cycle fails, the exchange was
\* attempted exactly once and no lead-page request is sent in that cycle.
C6_TokenFailureSendsNoPageRequest ==
    tokenFailed => (idReqs = 1 /\ pagesAsked = <<>>)

\* C7: the pages requested are 1, 2, 3, ... each once; every page that was
\* followed by another request had records and reported more_records = true;
\* and a fetch that stopped on an empty page or on a page not reporting
\* more_records = true returns the concatenation, in page order, of the
\* records of the pages received.
C7_PagesInOrderAndConcatenated ==
    /\ \A i \in 1..Len(pagesAsked) : pagesAsked[i] = i
    /\ Len(pagesGot) <= Len(pagesAsked)
    /\ \A i \in 1..Len(pagesGot) :
          (i < Len(pagesAsked) \/ pc = "paging") => Continues(pagesGot[i])
    /\ fetch_exit \in {"empty", "no_more"} =>
          /\ pc # "paging"
          /\ Len(pagesGot) = Len(pagesAsked)
          /\ ~Continues(pagesGot[Len(pagesGot)])
          /\ all_leads = Received

\* C7 witness: a fetch of two pages ended on a page that did not report
\* more records, and returned the records of both.
C7_Witness ==
    /\ fetch_exit = "no_more"
    /\ pagesAsked = <<1, 2>>
    /\ Len(all_leads) > Len(pagesGot[1].data)

\* C8: when the request for page k is answered with a non-2xx status, no
\* further page is requested, an error is reported, and the fetch returns
\* exactly the records of pages 1..k-1.
C8_Non2xxReturnsPartial ==
    (fetch_exit = "status" /\ last_status \notin 200..299) =>
        /\ pc # "paging"
        /\ "API Error" \in msgs
        /\ Len(pagesGot) = Len(pagesAsked) - 1
        /\ all_leads = Received

\* C8 witness: page 2 was answered with status 500 after page 1 had
\* delivered records, which the fetch returned.
C8_Witness ==
    /\ fetch_exit = "status"
    /\ last_status = 500
    /\ pagesAsked = <<1, 2>>
    /\ all_leads # <<>>

\* C9: no exception leaves the token exchange or the paginated fetch, and a
\* fetch that was aborted has reported a message.
C9_NoExceptionEscapes ==
    /\ ~raised
    /\ fetch_exit \in {"status", "exception"} => msgs # {}

\* C10: a run of the script that loads while the snapshot entry is unexpired
\* goes straight to the render and on to the date filter: neither step sends
\* a request to the identity or the lead endpoint, and both leave the token
\* cache and the snapshot cache as they are.
C10_RerenderLeavesCachesAlone ==
    [][((pc = "load" /\ ~forcing /\ Lookup(DefaultKey).present
            /\ now - Lookup(DefaultKey).stored < 60 * 60)
        \/ (pc = "render" /\ load_hit))
       => /\ pc' \in {"load", "render", "idle"}
          /\ tokenCache' = tokenCache
          /\ snapCache' = snapCache
          /\ idReqs' = idReqs
          /\ pagesAsked' = pagesAsked]_vars

\* C10 witness: a re-render served from the cache some time after the fetch
\* has shown a date-filtered part of the cached snapshot.
C10_Witness ==
    /\ pc = "idle"
    /\ load_hit
    /\ buttonShown
    /\ now > Lookup(DefaultKey).stored
    /\ filtered_leads # Lookup(DefaultKey).value

\* ------------------------------------------------------------------ C11
\* The owner name the contract gives a raw owner value: the name of an
\* object when it is a non-empty string, a non-empty string itself, and
\* "Unassigned" for everything else.
Usable(v) == v.t = "str" /\ v.s # ""
ContractOwner(owner_obj) ==
    IF owner_obj.t = "dict" /\ Usable(owner_obj.name) THEN owner_obj.name
    ELSE IF owner_obj.t = "str" /\ owner_obj.s # "" THEN Str(owner_obj.s)
    ELSE Str("Unassigned")

\* C11: every normalized row carries a non-empty owner name, the one the
\* contract gives the raw lead's Owner value.  (Violated: an Owner object
\* whose name is null or "" keeps that name.)
C11_OwnerNeverEmpty ==
    pc \in {"tabs", "grouped"} =>
        \A i \in 1..Len(df) :
            /\ Usable(df[i].Lead_Owner)
            /\ df[i].Lead_Owner = ContractOwner(filtered_leads[i].Owner)

\* ------------------------------------------------------------------ C12
\* The filter has run on the loaded snapshot.
Filtered == pc \in {"process", "tabs", "grouped"}
InResult(lead) == \E j \in 1..Len(filtered_leads) : filtered_leads[j] = lead
Parses(lead) ==
    /\ IsString(lead.Created_Time)
    /\ fromisoformat(ReplaceZ(lead.Created_Time), lenient).ok

\* C12: a lead whose Created_Time parses is in the filter's result iff the
\* date written in it lies in [start_date, end_date], whatever its time of
\* day and offset.
C12_ParsedLeadKeptIffDateInRange ==
    Filtered =>
        \A i \in 1..Len(all_leads) :
            Parses(all_leads[i]) =>
                (InResult(all_leads[i]) <=>
                    /\ start_date <= all_leads[i].Created_Time.day
                    /\ all_leads[i].Created_Time.day <= end_date)
\* A lead dated the day before start_date, one second before midnight, is
\* left out while a lead dated end_date (= start_date) is kept.
C12_Witness ==
    /\ Filtered
    /\ \E i, j \in 1..Len(all_leads) :
          /\ Parses(all_leads[i]) /\ Parses(all_leads[j])
          /\ all_leads[i].Created_Time.day = start_date - 1
          /\ all_leads[i].Created_Time.tod = 86399
          /\ ~InResult(all_leads[i])
          /\ all_leads[j].Created_Time.day = end_date
          /\ InResult(all_leads[j])

\* ------------------------------------------------------------------ C13
\* C13: a lead whose Created_Time does not parse (malformed text, empty
\* string, absent, null, a number) is in the filter's result for every
\* range.  (Violated: a Created_Time that is absent, null or "" takes
\* neither branch of the filter and the lead is left out.)
C13_UndatedLeadAlwaysKept ==
    Filtered =>
        \A i \in 1..Len(all_leads) :
            ~Parses(all_leads[i]) => InResult(all_leads[i])

\* ------------------------------------------------------------------ C14
RECURSIVE SumOver(_, _)
SumOver(f, keys) ==
    IF keys = {} THEN 0
    ELSE LET k == CHOOSE x \in keys : TRUE
         IN  f[k] + SumOver(f, keys \ {k})
Total(counts) == SumOver(counts, DOMAIN counts)

\* C14: whichever column a tab groups the rows by, the counts of the groups
\* add up to the number of rows.  (Violated: a row whose column value is
\* null belongs to no group, and a row whose ID is null is not counted.)
C14_GroupCountsSumToRows ==
    pc = "grouped" => Total(stats.count) = Len(stats.rows)

\* ------------------------------------------------------------------ C15
\* The owner tab has been shown.
Shown == pc = "shown"
OfOwner(rows, owner) == SelectSeq(rows, LAMBDA r : r.Lead_Owner = owner)

\* C15: the merged rows of the owner tab all belong to the selected owner,
\* and no record of the store that was added for another owner is among
\* them.  (Violated: every record of the store is merged in, whoever was
\* selected when it was added.)
C15_MergedViewOnlySelectedOwner ==
    Shown =>
        /\ \A i \in 1..Len(owner_df) : owner_df[i].Lead_Owner = owner_selected
        /\ \A j \in 1..Len(manual_leads) :
              manual_leads[j].Lead_Owner # owner_selected =>
                  \A i \in 1..Len(owner_df) : owner_df[i] # manual_leads[j]

\* ------------------------------------------------------------------ C16
\* C16: with m records of the store and n normalized rows belonging to the
\* selected owner, the merged rows are m + n long: first the m records in
\* the order they were added, then the n rows in snapshot order.
\* (Violated with C15: the records of other owners are merged in too.)
C16_MergedIsManualThenNormalized ==
    Shown =>
        LET manual == OfOwner(manual_leads, owner_selected)
            normalized == OfOwner(df, owner_selected)
            m == Len(manual)
            n == Len(normalized)
        IN  /\ Len(owner_df) = m + n
            /\ SubSeq(owner_df, 1, m) = manual
            /\ SubSeq(owner_df, m + 1, m + n) = normalized

\* ------------------------------------------------------------------ C17
\* A run in which the manual-lead form was submitted.
AddStep == Len(manual_leads') = Len(manual_leads) + 1
\* The number in a record's ID when it is "manual-" and a number.
IsManualNumber(row, k) == row.ID = Str("manual-" \o ToString(k))

\* C17: an add appends one record to the store and changes no other; the
\* record's ID is "manual-" and a number greater than the number of every
\* record added before, its status is "New" and its Created Time is the
\* server's local time of the add.
C17_AddAppendsFreshManualLead ==
    [][AddStep =>
        LET n == Len(manual_leads)
            added == manual_leads'[n + 1]
        IN  /\ SubSeq(manual_leads', 1, n) = manual_leads
            /\ \E k \in 1..(n + 1) :
                  /\ IsManualNumber(added, k)
                  /\ \A j \in 1..n : \A e \in 1..(n + 1) :
                        IsManualNumber(manual_leads[j], e) => e < k
            /\ added.Lead_Status = Str("New")
            /\ added.Created_Time = strftime(now + utcoffset)
            /\ added.Lead_Owner = owner_selected']_vars
\* A second add was made after the clock moved on: the store holds
\* manual-1 and manual-2 with different creation times.
C17_Witness ==
    /\ Len(manual_leads) >= 2
    /\ IsManualNumber(manual_leads[1], 1)
    /\ IsManualNumber(manual_leads[2], 2)
    /\ manual_leads[1].Created_Time # manual_leads[2].Created_Time

\* ------------------------------------------------------------------ C18
\* The row has been classified, or classifying it raised.
Classified == is_new.done
\* The row's Created Time parsed, with or without an offset.
ParsedRow == parse_created_time(row_time, lenient).ok
\* What the row's timestamp shows lies in [18:00:00, 23:59:59] of the day
\* before the current day, both taken in the timestamp's own zone (the
\* server's zone when it carries none).
InYesterdayEvening ==
    LET offset == IF row_time.kind = "iso" /\ row_time.tz = "none"
                  THEN utcoffset ELSE row_time.off
        yesterday == DateOf(now + offset) - 1
    IN  /\ row_time.day = yesterday
        /\ row_time.tod >= 18 * Hour

\* C18: under yesterday_after_6pm a parsed timestamp, with or without an
\* offset, is classified without an exception, and as new iff it lies in
\* yesterday's evening.  (Violated: a timestamp with an offset raises
\* TypeError.)
C18_YesterdayEveningClassified ==
    (Classified /\ time_window = "yesterday_after_6pm" /\ ParsedRow) =>
        /\ ~is_new.raised
        /\ is_new.value <=> InYesterdayEvening

\* ------------------------------------------------------------------ C19
\* The row's Created Time is the current instant, written as the server's
\* local time without offset or as UTC with "Z".
StampedNow ==
    \/ row_time = strftime(now + utcoffset)
    \/ row_time = Time("iso", DateOf(now), now % Day, "Z", 0)

\* C19: a row timestamped at the current instant is new under today and
\* under last_24 and not new under yesterday_after_6pm.  (Violated with
\* C18: under yesterday_after_6pm the "Z" form raises.)
C19_NowIsNewTodayAndLast24 ==
    (Classified /\ StampedNow) =>
        /\ ~is_new.raised
        /\ time_window \in {"today", "last_24"} => is_new.value
        /\ time_window = "yesterday_after_6pm" => ~is_new.value

\* ------------------------------------------------------------------ C20
\* The row's Created Time is null, empty, absent, or something none of the
\* three parse attempts accepts.
Undatable == row_time.kind \in {"bad", "empty", "absent", "null", "number"}

\* C20: an undatable row is classified without an exception and as not
\* new, under every time window, custom included.
C20_UndatableIsNeverNew ==
    (Classified /\ Undatable) => (~is_new.raised /\ ~is_new.value)
\* A number or a malformed text was classified, not new, under
\* yesterday_after_6pm or under custom.
C20_Witness ==
    /\ Classified /\ ~is_new.raised /\ ~is_new.value
    /\ row_time.kind \in {"number", "bad"}
    /\ time_window \in {"yesterday_after_6pm", "custom"}

\* ------------------------------------------------------------------ C21
\* A tab has filtered the rows.
TabShown == pc \in {"grouped", "listed"}
\* Every selection that is not empty holds the row's value of its column.
Selected(row, sel) ==
    /\ sel.owner # {} => row.Lead_Owner \in sel.owner
    /\ sel.status # {} => row.Lead_Status \in sel.status
    /\ sel.source # {} => row.Lead_Source \in sel.source

\* C21: the rows a tab aggregates or lists are the rows that every
\* non-empty selection holds the value of, in their order; an empty
\* selection restricts nothing.
C21_FiltersAndAcrossOrWithin ==
    TabShown => stats.rows = SelectSeq(df, LAMBDA r : Selected(r, stats.sel))
\* Two selections at once, one of them of two values, kept some rows and
\* dropped others.
C21_Witness ==
    /\ pc = "grouped"
    /\ stats.dim = "source"
    /\ stats.sel.owner # {}
    /\ Cardinality(stats.sel.status) = 2
    /\ Len(stats.rows) > 0
    /\ Len(stats.rows) < Len(df)

\* ------------------------------------------------------------------ C26
\* How many of the rows 1..n of a table carry value v in column o and value
\* k in the grouping column.
InGroup(rows, dim, k, o, v) ==
    Cardinality({i \in 1..Len(rows) :
                    Column(rows[i], dim) = k /\ Column(rows[i], o) = v})
ValuesInGroup(rows, dim, k, o) ==
    {Column(rows[i], o) : i \in {j \in 1..Len(rows) : Column(rows[j], dim) = k}}
        \ {Null}

\* C26: the most common value a tab reports for a group and a column is a
\* value no other value of the group's rows is more frequent than, and it
\* is 'N/A' exactly when the group's rows hold no value that is not null.
C26_MostCommonIsMostFrequent ==
    pc = "grouped" =>
        \A k \in DOMAIN stats.common : \A o \in Aggregated(stats.dim) :
            LET reported == stats.common[k][o]
                values == ValuesInGroup(stats.rows, stats.dim, k, o)
            IN  /\ reported = Str("N/A") <=> values = {}
                /\ values # {} =>
                      /\ reported \in values
                      /\ \A w \in values :
                            InGroup(stats.rows, stats.dim, k, o, w)
                                <= InGroup(stats.rows, stats.dim, k, o, reported)
\* A group of three rows whose first row holds the rarer value: the value
\* of the other two is reported.
C26_Witness ==
    /\ pc = "grouped"
    /\ \E k \in DOMAIN stats.common : \E o \in Aggregated(stats.dim) :
          /\ InGroup(stats.rows, stats.dim, k, o, stats.common[k][o]) = 2
          /\ Column(stats.rows[1], stats.dim) = k
          /\ Column(stats.rows[1], o) \notin {Null, stats.common[k][o]}

\* ------------------------------------------------------------------ C22
\* The message has been generated.
Generated == message.done
\* Where the styles put the fields.
Segment(field) ==
    LET at == CASE field = "name" -> 2
                [] field = "owner" -> 4
                [] field = "company" -> 6
                [] field = "source" -> 8
                [] field = "desc" -> 10
                [] field = "phone" -> 12
                [] field = "email" -> 14
    IN  IF at <= Len(message.text) THEN message.text[at] ELSE ""
NoName ==
    message.lead.Full_Name = Absent /\ message.lead.First_Name = Absent
Contains(text, segment) == \E i \in 1..Len(text) : text[i] = segment

\* C22 as stated: a message is generated, in either style, for any row;
\* every missing field leaves an empty segment; the short style holds the
\* owner name and the company passed in.  (Violated: a missing name is
\* written "Friend" and a missing source "No Source".)
C22_MissingFieldsRenderEmpty ==
    Generated =>
        /\ Len(message.text) > 0
        /\ NoName => Segment("name") = ""
        /\ message.lead.Lead_Source = Absent => Segment("source") = ""
        /\ message.lead.Company = Absent => Segment("company") = ""
        /\ message.lead.Description = Absent => Segment("desc") = ""
        /\ message.lead.Phone = Absent => Segment("phone") = ""
        /\ message.lead.Email = Absent => Segment("email") = ""
        /\ message.template = "short" =>
              /\ Contains(message.text, message.owner_name)
              /\ message.lead.Company.t = "str" =>
                    Contains(message.text, message.lead.Company.s)

\* C22 as the code has it: as above, but a missing name is written
\* "Friend" and a missing source "No Source"; only a missing company,
\* description, phone or email leaves an empty segment.
C22_MissingFieldsRenderDefaults ==
    Generated =>
        /\ Len(message.text) > 0
        /\ NoName => Segment("name") = "Friend"
        /\ message.lead.Lead_Source = Absent => Segment("source") = "No Source"
        /\ message.lead.Company = Absent => Segment("company") = ""
        /\ message.lead.Description = Absent => Segment("desc") = ""
        /\ message.lead.Phone = Absent => Segment("phone") = ""
        /\ message.lead.Email = Absent => Segment("email") = ""
        /\ message.template = "short" =>
              /\ Contains(message.text, message.owner_name)
              /\ message.lead.Company.t = "str" =>
                    Contains(message.text, message.lead.Company.s)
\* A short message was generated for a row with no field at all.
C22_Witness ==
    /\ Generated
    /\ message.template = "short"
    /\ message.lead = MessageLead(Absent, Absent, Absent, Absent, Absent,
                                   Absent, Absent)
    /\ Contains(message.text, message.owner_name)

\* ------------------------------------------------------------------ C23
\* The rows have been built.
Normalized == pc \in {"tabs", "grouped"}

\* C23: handing the rows to process_leads_data once more gives the same
\* rows, no field changed.  (Violated: a row has none of the keys 'id',
\* 'Owner', 'Lead_Status', 'Lead_Source', 'Created_Time' that are read, so
\* these fields come back as their defaults.)
C23_NormalizingRowsAgainChangesNothing ==
    Normalized =>
        process_leads_data([i \in 1..Len(df) |-> RowAsLead(df[i])]) = df

\* ------------------------------------------------------------------ C24
\* A page request after the first of a fetch is sent.
NextPageRequest ==
    /\ pc = "paging"
    /\ page > 1
    /\ Len(pagesAsked') = Len(pagesAsked) + 1

\* C24: no page request is sent with a token whose cache entry has expired:
\* when the next page request goes out, the token's entry is still being
\* served.  (Violated: the token is read once, before the first page, and
\* used for every page however long the paging takes.)
C24_NoPageRequestOnExpiredToken ==
    [][NextPageRequest => CacheHit(tokenCache, TokenTTL, now)]_vars

\* ------------------------------------------------------------------ C25
\* A page was received on which fetch_all goes on.
ReceivedContinuing ==
    /\ pc = "paging"
    /\ Len(pagesGot') = Len(pagesGot) + 1
    /\ Continues(pagesGot'[Len(pagesGot')])
\* The loop was left.
LoopLeft == pc = "paging" /\ pc' # "paging"

InitStore ==
    /\ InitOwnerTab
    /\ lenient
    /\ utcoffset = 0
    /\ Len(all_leads) = 2

StorePress(owner, window, press) == OwnerTabWithin(owner, window, press, MaxStore)

NextStore ==
    \E owner \in all_owners(df), window \in {"today", "custom"}, press \in Presses :
        StorePress(owner, window, press)

SpecStore == InitStore /\ [][NextStore]_vars

\* C28: after any sequence of "Add lead" and "Load example leads for this
\* owner", no two records of the session's manual-lead store have the same
\* ID.
C28_ManualIdsPairwiseDistinct ==
    \A i, j \in 1..Len(manual_leads) :
        i # j => manual_leads[i].ID # manual_leads[j].ID

\* ------------------------------------------------------------------ C27
\* A record of the remote collection with the fields the tabs read.
AsRawLead(lead) ==
    RawLead(Number,
            IF lead.id % 2 = 1 THEN Object(Str("Bob")) ELSE Plain(Str("Ann")),
            Str("x"), Str("x"), lead.Created_Time)

\* The rest of a script run whose tabs are drawn: the owner tab handles its
\* selection and its buttons with the store of the session, and then either
\* the forced refresh starts or the run ends.  A run that returns early
\* draws no tab; a run in which the refresh button was pressed has no other
\* button pressed.  The tables of the run (df, owner_df, the new mask) are
\* locals and do not outlive it.
RenderOwnerTab(owner, press) ==
    /\ RenderRun
    /\ LET f == fetch_leads_by_date_range_client(all_leads, start_date, end_date, lenient)
           rows == process_leads_data([i \in 1..Len(f) |-> AsRawLead(f[i])])
           pressed == IF force_pressed THEN "none" ELSE press
           store == StoreAfter(manual_leads, owner, now + utcoffset, pressed)
       IN  IF all_leads # <<>> /\ f # <<>>
           THEN /\ owner \in all_owners(rows)
                /\ Len(store) <= MaxManual
                /\ manual_leads' = store
           ELSE UNCHANGED manual_leads
    /\ UNCHANGED <<df, stats, owner_selected, owner_df, row_time, time_window,
                   custom_start, custom_end, is_new, lenient, utcoffset, message>>

SessionOwners == {Str("Ann"), Str("Bob")}
\* The remote system of the session answers: a token is issued and every
\* page asked for comes with its records.
SessionTokenResponses == {r \in TokenResponses : r.body = "token"}
SessionLeadResponses(k, tok) ==
    {r \in LeadResponses(k, tok) : r.json /\ r.data # <<>>}
\* Time passes between the runs of the script; the session is over after
\* one step of the clock, so its runs happen at two moments.
SessionTick == pc = "idle" /\ now < TickStep /\ Tick

NextSession ==
    \/ SessionTick
    \/ \E sd \in Days, press \in BOOLEAN : RunScript(sd, MaxDay, press)
    \/ Load
    \/ \E r \in SessionTokenResponses : GetToken(r, TRUE)
    \/ \E r \in SessionLeadResponses(page, access_token) : FetchPageOn(r)
    \/ \E owner \in SessionOwners, press \in Presses : RenderOwnerTab(owner, press)
    \/ Rerun

SpecSession == Init /\ [][NextSession]_vars

\* The records the remote collection holds.
RemoteRecords == {Lead(k, i) : k \in 1..MaxPages, i \in 1..2}
IsPrefix(s, t) == Len(s) <= Len(t) /\ SubSeq(t, 1, Len(s)) = s
Records(leads) == {leads[i] : i \in 1..Len(leads)}

====
